---- MODULE Spec2Model ----
(***************************************************************************)
(* fielded: the validation engine (validate / createValidation), Field,   *)
(* Form and FormArray, as a state machine.                                 *)
(*                                                                         *)
(* A Validation is a heap object; a run is one activation of the engine's  *)
(* async loop; a call is one activation of Field/Form/FormArray.validate().*)
(* An action runs a handler from its entry, or from the await it is        *)
(* suspended at, to its next await or its end: synchronous code is never   *)
(* interleaved, awaits are the only scheduling points.                     *)
(***************************************************************************)
EXTENDS Integers, Sequences, FiniteSets, TLC

VARIABLES
    validations,   \* heap of Validation objects: [state, errors, value, validators]
    runs,          \* activations of validate.run / createValidation.validate
    calls,         \* activations of Field/Form/FormArray .validate()
    rawValue,      \* Field -> last value set
    validation,    \* node -> id of its Validation in the heap, 0 when absent
    rows,          \* FormArray -> its rows
    validators,    \* node -> its declared validators
    allValidators, \* the validator list of the engine under test
    ops,           \* number of calls made from outside so far
    lastCall,      \* the last add, remove or addValidators call: [op, array, arg, result]
                   \* with array the object it was called on;
                   \* turn flips at each such call
    fieldType      \* Field -> "text" or "number", "none" for a field not made yet

vars ==
    <<validations, runs, calls, rawValue, validation, rows, validators, allValidators, ops,
      lastCall, fieldType>>

\* ------------------------------------------------------------------ bounds
MaxValidators == 3
MaxOps == 2
MaxRows == 3

\* ------------------------------------------------------------------ values
\* Every JavaScript value is a record tagged with its type.
Undefined == [type |-> "undefined"]
Text(s) == [type |-> "string", text |-> s]
Values == {Text("a"), Text("b")}

AGGREGATE_ERROR == [type |-> "object", token |-> "AGGREGATE_ERROR"]

\* Object.create(null): an object with no toString and no valueOf.
Bare == [type |-> "object", token |-> "bare"]

\* The TypeError of String(e) for an e that has no primitive value.
TypeError == [type |-> "TypeError", message |-> "Cannot convert object to primitive value"]

\* new ValidationError(message, { bail, cause }); id is the object's identity
ValidationError(message, bail, cause, id) ==
    [type |-> "ValidationError", message |-> message, bail |-> bail,
     cause |-> cause, id |-> id]

\* new Error(message)
Error(message, id) == [type |-> "Error", message |-> message, id |-> id]

\* String(e) for an e that is not an Error: the text of a string, "undefined",
\* "[object Object]" for a plain object, and a TypeError, thrown, for an
\* object that has no primitive value.
String(e) ==
    CASE e.type = "string" -> e
      [] e.type = "undefined" -> Text("undefined")
      [] e = Bare -> TypeError
      [] OTHER -> Text("[object Object]")

\* ValidationError.from that wraps every value, a ValidationError included
fromAlwaysWrapping(e) ==
    IF e.type \in {"ValidationError", "Error"} THEN ValidationError(e.message, TRUE, e, e.id)
    ELSE IF String(e) = TypeError THEN TypeError
    ELSE ValidationError(String(e).text, TRUE, e, <<0, 0>>)

\* ValidationError.from(e); String(e) throws a TypeError for an object that
\* cannot be converted, and from(e) is then that TypeError, thrown.
from(e) ==
    IF e.type = "ValidationError" THEN e
    ELSE IF e.type = "Error" THEN ValidationError(e.message, TRUE, e, e.id)
    ELSE IF String(e) = TypeError THEN TypeError
    ELSE ValidationError(String(e).text, TRUE, e, <<0, 0>>)

\* --------------------------------------------------------------- validators
\* What a validator does with a value: one of these behaviours.
SyncReturns == {"return", "returnAgg"}
SyncThrows == {"throwError", "throwNoBail", "throwAgg", "throwString", "throwBare"}
Resolves == {"resolve", "resolveAgg"}
Rejects == {"rejectError", "rejectNoBail", "rejectAgg", "rejectBare"}
Behaviours == SyncReturns \cup SyncThrows \cup Resolves \cup Rejects

\* A validator is a function of the value; beh[v] is what it does with v.
Validator(name, onA, onB) ==
    [name |-> name, beh |-> [v \in Values |-> IF v = Text("a") THEN onA ELSE onB]]

\* The synthetic first validator of a Form/FormArray run: () => this.validateAll()
validateAllValidator == [name |-> "validateAll", beh |-> [v \in Values |-> "resolve"]]

\* The value thrown, or rejected with, by behaviour b of the validator `name`
\* at position k of run r.
Thrown(b, name, r, k) ==
    CASE b \in {"throwError", "rejectError"} -> Error(name, <<r, k>>)
      [] b \in {"throwNoBail", "rejectNoBail"} -> ValidationError(name, FALSE, Undefined, <<r, k>>)
      [] b \in {"throwAgg", "rejectAgg"} -> AGGREGATE_ERROR
      [] b \in {"throwBare", "rejectBare"} -> Bare
      [] OTHER -> Text(name)

\* The text a validator looks at: the value itself, or the first field of a
\* snapshot.
RECURSIVE Key(_)
Key(value) ==
    IF value.type = "string" THEN value
    ELSE IF value.type = "object" /\ Len(value.items) > 0 THEN Key(value.items[1])
    ELSE Text("a")

Behaviour(validator, value) == validator.beh[Key(value)]

\* The validators the engine is exercised with.
ValidatorPool ==
    { Validator("accept", "return", "return"),
      Validator("acceptAsync", "resolve", "resolve"),
      Validator("required", "throwError", "return"),
      Validator("warn", "throwNoBail", "rejectNoBail"),
      Validator("unique", "rejectError", "resolve"),
      Validator("aggregate", "throwAgg", "rejectAgg"),
      Validator("token", "returnAgg", "resolveAgg"),
      Validator("text", "throwString", "throwNoBail"),
      Validator("bare", "throwBare", "rejectBare") }

RECURSIVE SeqsUpTo(_, _)
SeqsUpTo(S, n) ==
    IF n = 0 THEN {<<>>}
    ELSE LET shorter == SeqsUpTo(S, n - 1)
         IN shorter \cup {Append(s, x) : s \in {t \in shorter : Len(t) = n - 1}, x \in S}

\* ------------------------------------------------------------------- objects
\* new Form({ name: Field, list: new FormArray([new Form({ item: Field })]) })
Nodes == 1 .. 5
\* Further rows for the array, each a new Form({})
SpareRows == {6, 7}
Kind(n) ==
    CASE n \in {1, 4} \cup SpareRows -> "Form"
      [] n = 3 -> "FormArray"
      [] OTHER -> "Field"
FieldsOf(n) == IF n = 1 THEN <<2, 3>> ELSE IF n = 4 THEN <<5>> ELSE <<>>
initialRows(n) == IF n = 3 THEN <<4>> ELSE <<>>
initialValue(n) == Text("a")

\* The mutable state the handlers work on, threaded through them as one record.
State ==
    [validations |-> validations, runs |-> runs, calls |-> calls,
     rawValue |-> rawValue, validation |-> validation, rows |-> rows]

Children(st, n) == IF Kind(n) = "FormArray" THEN st.rows[n] ELSE FieldsOf(n)

\* snapshot, with the validated value of a Field in place of its raw value.
RECURSIVE snapshotValidated(_, _)
snapshotValidated(st, n) ==
    IF Kind(n) = "Field"
    THEN IF st.validation[n] = 0 THEN Undefined ELSE st.validations[st.validation[n]].value
    ELSE [type |-> "object",
          items |-> [k \in 1 .. Len(Children(st, n)) |->
                        snapshotValidated(st, Children(st, n)[k])]]

\* Form.snapshot / FormArray.snapshot; a Field contributes its raw value.
RECURSIVE snapshot(_, _)
snapshot(st, n) ==
    IF Kind(n) = "Field" THEN st.rawValue[n]
    ELSE [type |-> "object",
          items |-> [k \in 1 .. Len(Children(st, n)) |-> snapshot(st, Children(st, n)[k])]]

\* ------------------------------------------------------------------- engine
Promise == [type |-> "object", token |-> "Promise"]

\* { state: "pending", value: undefined, errors: [] }
PendingValidation(list) ==
    [state |-> "pending", errors |-> <<>>, value |-> Undefined, validators |-> list]

\* update(...): Object.assign(validation, update)
update(st, vid, upd) ==
    [st EXCEPT !.validations[vid] =
        [@ EXCEPT !.state = upd.state, !.errors = upd.errors, !.value = upd.value]]

\* A run started later on the same object has already reached its end.
Overtaken(st, r) ==
    \E q \in r + 1 .. Len(st.runs) :
        /\ st.runs[q].pc = "done"
        /\ st.runs[q].node = st.runs[r].node
        /\ st.runs[q].node = 0 => st.runs[q].target = st.runs[r].target

\* commit, storing no value when valid.
commitWithoutValue(st, r) ==
    LET this == st.runs[r]
        st1 == [st EXCEPT !.runs[r].pc = "done", !.runs[r].overtaken = Overtaken(st, r)]
    IN IF this.result = AGGREGATE_ERROR \/ Len(this.errors) > 0
       THEN update(st1, this.target,
                   [state |-> "invalid", errors |-> this.errors, value |-> Undefined])
       ELSE update(st1, this.target,
                   [state |-> "valid", errors |-> this.errors, value |-> Undefined])

\* After the loop: commit invalid or valid.
commit(st, r) ==
    LET this == st.runs[r]
        st1 == [st EXCEPT !.runs[r].pc = "done", !.runs[r].overtaken = Overtaken(st, r)]
    IN IF this.result = AGGREGATE_ERROR \/ Len(this.errors) > 0
       THEN update(st1, this.target,
                   [state |-> "invalid", errors |-> this.errors, value |-> Undefined])
       ELSE update(st1, this.target,
                   [state |-> "valid", errors |-> this.errors, value |-> this.value])

RECURSIVE loop(_, _), catch(_, _, _), validateAll(_, _, _, _), validate(_, _, _)

\* The exception leaves run(): its promise rejects, nothing is committed.
reject(st, r) == [st EXCEPT !.runs[r].pc = "rejected"]

\* catch, never breaking on a bailing error.
catchKeepsGoing(st, r, e) ==
    IF e = AGGREGATE_ERROR
    THEN commit([st EXCEPT !.runs[r].result = e], r)
    ELSE IF from(e) = TypeError THEN reject(st, r)
    ELSE loop([st EXCEPT !.runs[r].errors = Append(@, from(e)), !.runs[r].i = @ + 1], r)

\* catch, breaking on every error.
catchAlwaysBreaks(st, r, e) ==
    IF e = AGGREGATE_ERROR
    THEN commit([st EXCEPT !.runs[r].result = e], r)
    ELSE IF from(e) = TypeError THEN reject(st, r)
    ELSE commit([st EXCEPT !.runs[r].errors = Append(@, from(e))], r)

\* catch, breaking on the sentinel without recording it in result.
catchLosesSentinel(st, r, e) ==
    IF e = AGGREGATE_ERROR
    THEN commit(st, r)
    ELSE IF from(e) = TypeError THEN reject(st, r)
    ELSE LET error == from(e)
             st1 == [st EXCEPT !.runs[r].errors = Append(@, error)]
         IN IF error.bail
            THEN commit(st1, r)
            ELSE loop([st1 EXCEPT !.runs[r].i = @ + 1], r)

\* catch, publishing a non-bailing error at once and going on.
catchUpdatesAtOnce(st, r, e) ==
    IF e = AGGREGATE_ERROR
    THEN commit([st EXCEPT !.runs[r].result = e], r)
    ELSE IF from(e) = TypeError THEN reject(st, r)
    ELSE LET error == from(e)
             st1 == [st EXCEPT !.runs[r].errors = Append(@, error)]
         IN IF error.bail
            THEN commit(st1, r)
            ELSE loop(update([st1 EXCEPT !.runs[r].i = @ + 1], st.runs[r].target,
                             [state |-> "invalid", errors |-> st1.runs[r].errors,
                              value |-> Undefined]), r)

\* catch, recording the sentinel as it records any other failure.
catchWrapsSentinel(st, r, e) ==
    IF from(e) = TypeError THEN reject(st, r)
    ELSE LET error == from(e)
             st1 == [st EXCEPT !.runs[r].errors = Append(@, error)]
         IN IF error.bail
            THEN commit(st1, r)
            ELSE loop([st1 EXCEPT !.runs[r].i = @ + 1], r)

\* catch (e): the sentinel ends the loop; any other failure is recorded, and
\* ends the loop if it bails. An exception of ValidationError.from(e) is
\* thrown inside the catch block and leaves run().
catch(st, r, e) ==
    IF e = AGGREGATE_ERROR
    THEN commit([st EXCEPT !.runs[r].result = e], r)
    ELSE IF from(e) = TypeError THEN reject(st, r)
    ELSE LET error == from(e)
             st1 == [st EXCEPT !.runs[r].errors = Append(@, error)]
         IN IF error.bail
            THEN commit(st1, r)
            ELSE loop([st1 EXCEPT !.runs[r].i = @ + 1], r)

\* The list a run walks, read from its Form or FormArray at every step.
flatLive(st, r) ==
    IF st.runs[r].node # 0 /\ Kind(st.runs[r].node) # "Field"
    THEN <<validateAllValidator>> \o validators[st.runs[r].node]
    ELSE st.runs[r].validators

\* const allValidators = validators.flat(): the list a run walks is the copy
\* made when validate() was called
flat(st, r) == st.runs[r].validators

\* The argument of a validator, read from the field when the validator is called.
argumentCurrent(st, r) ==
    IF st.runs[r].node # 0 /\ Kind(st.runs[r].node) = "Field"
    THEN st.rawValue[st.runs[r].node]
    ELSE st.runs[r].value

\* validator(value): the argument is the parameter `value` of the run
argument(st, r) == st.runs[r].value

\* The call of the validator at this.i, with its argument.
invoke(st, r) ==
    [st EXCEPT !.runs[r].invoked = Append(@, st.runs[r].i),
               !.runs[r].received = Append(@, argument(st, r))]

\* run, going on to the next validator without awaiting a promise.
runWithoutAwait(st, r) ==
    LET this == st.runs[r]
        validator == flat(st, r)[this.i]
        b == Behaviour(validator, argument(st, r))
        st1 == invoke(st, r)
    IN IF validator.name = "validateAll"
       THEN validateAll([st1 EXCEPT !.runs[r].result = Promise, !.runs[r].pc = "await"],
                        this.node, r, 1)
       ELSE IF b \in SyncThrows
       THEN catch(st1, r, Thrown(b, validator.name, r, this.i))
       ELSE loop([st1 EXCEPT !.runs[r].result =
                                  IF b = "returnAgg" THEN AGGREGATE_ERROR
                                  ELSE IF b \in SyncReturns THEN Undefined ELSE Promise,
                              !.runs[r].i = @ + 1], r)

\* One iteration of validate()'s run(), from the call of the validator at
\* this.i: awaits only what looks like a promise.
run(st, r) ==
    LET this == st.runs[r]
        validator == flat(st, r)[this.i]
        b == Behaviour(validator, argument(st, r))
        st1 == invoke(st, r)
    IN IF validator.name = "validateAll"
       THEN validateAll([st1 EXCEPT !.runs[r].result = Promise, !.runs[r].pc = "await"],
                        this.node, r, 1)
       ELSE IF b \in SyncThrows
       THEN catch(st1, r, Thrown(b, validator.name, r, this.i))
       ELSE IF b \in SyncReturns
       THEN loop([st1 EXCEPT !.runs[r].result =
                                  IF b = "returnAgg" THEN AGGREGATE_ERROR ELSE Undefined,
                              !.runs[r].i = @ + 1], r)
       ELSE [st1 EXCEPT !.runs[r].result = Promise, !.runs[r].pc = "await"]

\* One iteration of createValidation's validate(), from the call of the
\* validator at this.i: awaits whatever the validator returns.
createValidationStep(st, r) ==
    LET this == st.runs[r]
        validator == flat(st, r)[this.i]
        b == Behaviour(validator, argument(st, r))
        st1 == invoke(st, r)
    IN IF b \in SyncThrows
       THEN catch(st1, r, Thrown(b, validator.name, r, this.i))
       ELSE [st1 EXCEPT !.runs[r].pc = "await"]

\* for (const validator of allValidators) ...
loop(st, r) ==
    LET this == st.runs[r]
    IN IF this.i > Len(flat(st, r)) THEN commit(st, r)
       ELSE IF this.engine = "validate" THEN run(st, r)
       ELSE createValidationStep(st, r)

NewRun(engine, target, value, list, node) ==
    [engine |-> engine, target |-> target, value |-> value, validators |-> list,
     node |-> node, i |-> 1, errors |-> <<>>, result |-> Undefined,
     pc |-> "await", invoked |-> <<>>, received |-> <<>>, settled |-> <<>>,
     overtaken |-> FALSE]

\* validate(value, validators): a new Validation, and its run started.
engineValidate(st, value, list, node) ==
    LET vid == Len(st.validations) + 1
        r == Len(st.runs) + 1
    IN loop([st EXCEPT !.validations = Append(@, PendingValidation(list)),
                       !.runs = Append(@, NewRun("validate", vid, value, list, node))], r)

RECURSIVE fromEach(_, _)
\* errors.map((error) => ValidationError.from(error)), from the k-th on
fromEach(list, k) ==
    IF k > Len(list) THEN <<>> ELSE <<from(list[k])>> \o fromEach(list, k + 1)

\* createStubValidation("invalid", errors) keeping the errors as given
createStubValidationUnconverted(state, arg) ==
    [state |-> state, errors |-> IF state = "invalid" THEN arg ELSE <<>>,
     value |-> IF state = "valid" THEN arg ELSE Undefined, validators |-> <<>>]

\* createStubValidation(state, arg); its validate does nothing
createStubValidation(state, arg) ==
    CASE state = "valid" ->
            [state |-> state, errors |-> <<>>, value |-> arg, validators |-> <<>>]
      [] state = "invalid" ->
            [state |-> state, errors |-> fromEach(arg, 1), value |-> Undefined,
             validators |-> <<>>]
      [] OTHER ->
            [state |-> state, errors |-> <<>>, value |-> Undefined, validators |-> <<>>]

\* createValidation(...validators)
createValidation(st, list) ==
    [st EXCEPT !.validations = Append(@, PendingValidation(list))]

\* validation.validate(value), going back to pending with the errors it has.
validationValidateKeepsErrors(st, vid, value, node) ==
    LET r == Len(st.runs) + 1
        st1 == update(st, vid, [state |-> "pending", errors |-> st.validations[vid].errors,
                                value |-> Undefined])
    IN loop([st1 EXCEPT !.runs = Append(@, NewRun("createValidation", vid, value,
                                                     st.validations[vid].validators, node))], r)

\* validation.validate(value) of a Validation made by createValidation
validationValidate(st, vid, value, node) ==
    LET r == Len(st.runs) + 1
        st1 == update(st, vid, [state |-> "pending", errors |-> <<>>, value |-> Undefined])
    IN loop([st1 EXCEPT !.runs = Append(@, NewRun("createValidation", vid, value,
                                                     st.validations[vid].validators, node))], r)

NewCall(n, r, parent) ==
    [node |-> n, run |-> r, parent |-> parent, done |-> FALSE, result |-> 0,
     state |-> "absent"]

\* Field.validate, running the Validation the field already has again.
fieldValidateReusing(st, n, parent) ==
    LET fresh == st.validation[n] = 0
        vid == IF fresh THEN Len(st.validations) + 1 ELSE st.validation[n]
        r == Len(st.runs) + 1
        st1 == IF fresh THEN createValidation(st, validators[n]) ELSE st
        st2 == [st1 EXCEPT !.validation[n] = vid]
        st3 == validationValidate(st2, vid, st2.rawValue[n], n)
    IN [st3 EXCEPT !.calls = Append(@, NewCall(n, r, parent))]

\* Field.validate
fieldValidate(st, n, parent) ==
    LET vid == Len(st.validations) + 1
        r == Len(st.runs) + 1
        st1 == createValidation(st, validators[n])
        st2 == [st1 EXCEPT !.validation[n] = vid]
        st3 == validationValidate(st2, vid, st2.rawValue[n], n)
    IN [st3 EXCEPT !.calls = Append(@, NewCall(n, r, parent))]

\* Form.validate / FormArray.validate
formValidate(st, n, parent) ==
    LET vid == Len(st.validations) + 1
        r == Len(st.runs) + 1
        st1 == engineValidate(st, snapshot(st, n), <<validateAllValidator>> \o validators[n], n)
        st2 == [st1 EXCEPT !.validation[n] = vid]
    IN [st2 EXCEPT !.calls = Append(@, NewCall(n, r, parent))]

\* x.validate() for a child or from outside; parent is the run whose
\* validateAll made the call, 0 when there is none.
validate(st, n, parent) ==
    IF Kind(n) = "Field" THEN fieldValidate(st, n, parent) ELSE formValidate(st, n, parent)

\* validateAll, up to its await: .map((field) => field.validate()) from the
\* k-th child on.
validateAll(st, n, r, k) ==
    IF k > Len(Children(st, n)) THEN st
    ELSE validateAll(validate(st, Children(st, n)[k], r), n, r, k + 1)

\* The calls validateAll of run r waits for.
Awaited(st, r) == {c \in 1 .. Len(st.calls) : st.calls[c].parent = r}

\* validateAll that never finds an invalid child
invalidNever(st, r) == FALSE

\* validateAll after Promise.all: validations.some(v => v?.state === "invalid")
invalid(st, r) ==
    \E c \in Awaited(st, r) :
        /\ st.calls[c].result # 0
        /\ st.validations[st.calls[c].result].state = "invalid"

\* The awaited promise can settle; validateAll's as soon as one of the calls
\* it made has returned.
CanSettleFirst(st, r) ==
    /\ st.runs[r].pc = "await"
    /\ flat(st, r)[st.runs[r].i].name = "validateAll"
         => (Awaited(st, r) = {} \/ \E c \in Awaited(st, r) : st.calls[c].done)

\* The awaited promise of run r can settle: validateAll's once every call it
\* made has returned, a validator's at any time.
CanSettle(st, r) ==
    /\ st.runs[r].pc = "await"
    /\ flat(st, r)[st.runs[r].i].name = "validateAll"
         => \A c \in Awaited(st, r) : st.calls[c].done

\* The run continues after its await.
settle(st, r) ==
    LET this == st.runs[r]
        validator == flat(st, r)[this.i]
        b == Behaviour(validator, this.received[Len(this.received)])
        woken == [st EXCEPT !.runs[r].settled = Append(@, this.i)]
        next == [woken EXCEPT !.runs[r].i = @ + 1]
    IN IF validator.name = "validateAll"
       THEN IF invalid(st, r) THEN catch(woken, r, AGGREGATE_ERROR) ELSE loop(next, r)
       ELSE IF b \in Rejects
       THEN catch(woken, r, Thrown(b, validator.name, r, this.i))
       ELSE loop(next, r)

\* validate() that assigns the Validation it started again after its await
returnAttaching(st, c) ==
    LET vid == st.runs[st.calls[c].run].target
    IN [st EXCEPT !.calls[c].done = TRUE,
                  !.calls[c].result = vid,
                  !.calls[c].state = st.validations[vid].state,
                  !.validation[st.calls[c].node] = vid]

\* await ...; return this.validation
return(st, c) ==
    LET vid == st.validation[st.calls[c].node]
    IN [st EXCEPT !.calls[c].done = TRUE,
                  !.calls[c].result = vid,
                  !.calls[c].state = IF vid = 0 THEN "absent" ELSE st.validations[vid].state]

\* validation?.errors || []
validationErrors(n) == IF validation[n] = 0 THEN <<>> ELSE validations[validation[n]].errors

\* Field.value read from the raw value
fieldValueRaw(n) == rawValue[n]

\* Field.value: the accepted value of a valid field, undefined otherwise
fieldValue(n) ==
    IF validation[n] # 0 /\ validations[validation[n]].state = "valid"
    THEN validations[validation[n]].value
    ELSE Undefined

\* Form.formErrors
formErrors(n) == validationErrors(n)

RECURSIVE errors(_), flatErrors(_, _)

\* Form.fieldErrors: Object.values(this.fields).flatMap((field) => field.errors)
fieldErrors(n) == flatErrors(FieldsOf(n), 1)

\* Form.errors, always the form's own errors.
errorsOwnOnly(n) == validationErrors(n)

\* Field.errors, Form.errors, FormArray.errors
errors(n) ==
    IF Kind(n) = "Form"
    THEN IF Len(fieldErrors(n)) > 0 THEN fieldErrors(n) ELSE formErrors(n)
    ELSE validationErrors(n)

\* The errors of the objects listed from the k-th on, concatenated.
flatErrors(list, k) ==
    IF k > Len(list) THEN <<>> ELSE errors(list[k]) \o flatErrors(list, k + 1)

\* Array.prototype.indexOf, 0-based, -1 when absent
indexOf(list, row) ==
    IF \E k \in 1 .. Len(list) : list[k] = row
    THEN (CHOOSE k \in 1 .. Len(list) :
              list[k] = row /\ \A j \in 1 .. k - 1 : list[j] # row) - 1
    ELSE -1

\* Array.prototype.splice(start, deleteCount) without insertion, 0-based start
splice(list, start, deleteCount) ==
    LET len == Len(list)
        begin == IF start < 0 THEN (IF len + start < 0 THEN 0 ELSE len + start)
                 ELSE IF start > len THEN len ELSE start
        count == IF deleteCount < 0 THEN 0
                 ELSE IF deleteCount > len - begin THEN len - begin ELSE deleteCount
    IN SubSeq(list, 1, begin) \o SubSeq(list, begin + count + 1, len)

\* A number and an object reference, as arguments of FormArray.remove
Index(i) == [type |-> "number", value |-> i]
Ref(n) == [type |-> "object", ref |-> n]

\* FormArray.add(...rows)
add(st, a, newRows) == [st EXCEPT !.rows[a] = st.rows[a] \o newRows]

\* FormArray.remove with the deleteCount left out: splice(index)
removeFrom(st, a, row) ==
    LET index == IF row.type = "number" THEN row.value ELSE indexOf(st.rows[a], row.ref)
    IN [st EXCEPT !.rows[a] = splice(st.rows[a], index, Len(st.rows[a]))]

\* FormArray.remove(row)
remove(st, a, row) ==
    LET index == IF row.type = "number" THEN row.value ELSE indexOf(st.rows[a], row.ref)
    IN [st EXCEPT !.rows[a] = splice(st.rows[a], index, 1)]

RECURSIVE reset(_, _), resetEach(_, _, _), resetRows(_, _, _)

\* Field.reset that validates the restored value
fieldResetRevalidating(st, n) ==
    validate([st EXCEPT !.rawValue[n] = initialValue(n)], n, 0)

\* Field.reset
fieldReset(st, n) ==
    [st EXCEPT !.rawValue[n] = initialValue(n), !.validation[n] = 0]

\* Field.setError(error): the field gets an invalid Validation holding the
\* error; when ValidationError.from throws, so does setError, before the
\* assignment.
setError(st, n, e) ==
    IF from(e) = TypeError THEN st
    ELSE [st EXCEPT !.validations = Append(@, createStubValidation("invalid", <<e>>)),
                    !.validation[n] = Len(st.validations) + 1]

\* Form.reset that clears the form's validation and leaves the children alone
formResetOwnOnly(st, n) == [st EXCEPT !.validation[n] = 0]

\* Form.reset
formReset(st, n) ==
    resetEach([st EXCEPT !.validation[n] = 0], FieldsOf(n), 1)

\* this.rows[i] = row, i counted from 1; i = length + 1 appends
assign(list, i, row) ==
    IF i <= Len(list) THEN [list EXCEPT ![i] = row] ELSE Append(list, row)

\* FormArray.reset that only cuts the excess rows and resets the rows left
arrayResetKeepingRows(st, n) ==
    LET cut == [st EXCEPT !.validation[n] = 0,
                          !.rows[n] = splice(st.rows[n], Len(initialRows(n)), Len(st.rows[n]))]
    IN resetEach(cut, cut.rows[n], 1)

\* FormArray.reset
arrayReset(st, n) ==
    LET cut == [st EXCEPT !.validation[n] = 0,
                          !.rows[n] = splice(st.rows[n], Len(initialRows(n)), Len(st.rows[n]))]
    IN resetRows(cut, n, 1)

\* the loop of FormArray.reset, from the i-th initial row on
resetRows(st, n, i) ==
    IF i > Len(initialRows(n)) THEN st
    ELSE LET put == [st EXCEPT !.rows[n] = assign(st.rows[n], i, initialRows(n)[i])]
         IN resetRows(reset(put, put.rows[n][i]), n, i + 1)

reset(st, n) ==
    CASE Kind(n) = "Field" -> fieldReset(st, n)
      [] Kind(n) = "Form" -> formReset(st, n)
      [] OTHER -> arrayReset(st, n)

\* value.reset() for each of the objects listed, from the k-th on
resetEach(st, list, k) ==
    IF k > Len(list) THEN st ELSE resetEach(reset(st, list[k]), list, k + 1)

\* ------------------------------------------------------------------ actions
Store(st) ==
    /\ validations' = st.validations
    /\ runs' = st.runs
    /\ calls' = st.calls
    /\ rawValue' = st.rawValue
    /\ validation' = st.validation
    /\ rows' = st.rows

\* validate(value, allValidators)
Validate(value) ==
    /\ ops < MaxOps
    /\ ops' = ops + 1
    /\ Store(engineValidate(State, value, allValidators, 0))
    /\ UNCHANGED <<validators, allValidators, lastCall, fieldType>>

\* validation.validate(value) on the Validation made by createValidation
ValidationValidate(value) ==
    /\ ops < MaxOps
    /\ ops' = ops + 1
    /\ Store(validationValidate(State, 1, value, 0))
    /\ UNCHANGED <<validators, allValidators, lastCall, fieldType>>

\* The promise a run awaits settles, and the run continues.
Settle(r) ==
    /\ CanSettle(State, r)
    /\ Store(settle(State, r))
    /\ UNCHANGED <<validators, allValidators, ops, lastCall, fieldType>>

\* Field.set(value) with the two statements swapped: validate, then assign
FieldSetValidatingFirst(n, value) ==
    /\ ops < MaxOps
    /\ ops' = ops + 1
    /\ Store([validate(State, n, 0) EXCEPT !.rawValue[n] = value])
    /\ UNCHANGED <<validators, allValidators, lastCall, fieldType>>

\* Field.set(value)
FieldSet(n, value) ==
    /\ ops < MaxOps
    /\ ops' = ops + 1
    /\ Store(validate([State EXCEPT !.rawValue[n] = value], n, 0))
    /\ UNCHANGED <<validators, allValidators, lastCall, fieldType>>

\* field.setError(e)
FieldSetError(n, e) ==
    /\ ops < MaxOps
    /\ ops' = ops + 1
    /\ Store(setError(State, n, e))
    /\ UNCHANGED <<validators, allValidators, lastCall, fieldType>>

\* The objects that addValidators makes.
FreshFields == {8, 9}

\* addValidators that drops the validators the field already has
addValidatorsReplacing(config, list) == list

\* this.config.validators.concat(validators)
addValidators(config, list) == config \o list

\* field.addValidators(...list): a new NumberField or TextField, by the class
\* of the receiver, with the receiver's initial value and the joined list
FieldAddValidators(n, list) ==
    /\ ops < MaxOps
    /\ ops' = ops + 1
    /\ fieldType[n] # "none"
    /\ \E m \in FreshFields :
          /\ fieldType[m] = "none"
          /\ \A k \in FreshFields : k < m => fieldType[k] # "none"
          /\ fieldType' = [fieldType EXCEPT ![m] = IF fieldType[n] = "number" THEN "number"
                                                   ELSE "text"]
          /\ validators' = [validators EXCEPT ![m] = addValidators(validators[n], list)]
          /\ rawValue' = [rawValue EXCEPT ![m] = initialValue(n)]
          /\ validation' = [validation EXCEPT ![m] = 0]
          /\ lastCall' = [op |-> "addValidators", array |-> n, arg |-> list, result |-> m,
                          turn |-> 1 - lastCall.turn]
    /\ UNCHANGED <<validations, runs, calls, rows, allValidators>>

\* this.validators.push(...items)
push(list, items) == list \o items

\* form.addValidators(...list) or array.addValidators(...list)
FormAddValidators(n, list) ==
    /\ Len(validators[n]) + Len(list) <= MaxValidators
    /\ validators' = [validators EXCEPT ![n] = push(@, list)]
    /\ UNCHANGED <<validations, runs, calls, rawValue, validation, rows, allValidators, ops,
                   lastCall, fieldType>>

\* field.validate(), form.validate() or array.validate(), called from outside
NodeValidate(n) ==
    /\ ops < MaxOps
    /\ ops' = ops + 1
    /\ Store(validate(State, n, 0))
    /\ UNCHANGED <<validators, allValidators, lastCall, fieldType>>

\* field.reset(), form.reset() or array.reset()
Reset(n) ==
    /\ ops < MaxOps
    /\ ops' = ops + 1
    /\ Store(reset(State, n))
    /\ UNCHANGED <<validators, allValidators, lastCall, fieldType>>

\* A validate() call resumes after its await and returns.
Return(c) ==
    /\ ~calls[c].done
    /\ runs[calls[c].run].pc = "done"
    /\ Store(return(State, c))
    /\ UNCHANGED <<validators, allValidators, ops, lastCall, fieldType>>

\* array.add(...newRows)
ArrayAdd(a, newRows) ==
    /\ Len(rows[a]) + Len(newRows) <= MaxRows
    /\ Store(add(State, a, newRows))
    /\ lastCall' = [op |-> "add", array |-> a, arg |-> newRows, result |-> a,
                    turn |-> 1 - lastCall.turn]
    /\ UNCHANGED <<validators, allValidators, ops, fieldType>>

\* array.remove(row), row an index or a row
ArrayRemove(a, row) ==
    /\ Store(remove(State, a, row))
    /\ lastCall' = [op |-> "remove", array |-> a, arg |-> row, result |-> a,
                    turn |-> 1 - lastCall.turn]
    /\ UNCHANGED <<validators, allValidators, ops, fieldType>>

\* ----------------------------------------------------------- specifications
NoNodes == [n \in Nodes |-> 0]
NoCall == [op |-> "none", array |-> 0, arg |-> <<>>, result |-> 0, turn |-> 0]

\* The fields of the form are text fields.
TextFields == [n \in Nodes |-> IF Kind(n) = "Field" THEN "text" ELSE "none"]

\* The engine alone: createValidation(allValidators) has been called once.
Init ==
    /\ allValidators \in SeqsUpTo(ValidatorPool, MaxValidators)
    /\ validations = <<PendingValidation(allValidators)>>
    /\ runs = <<>>
    /\ calls = <<>>
    /\ rawValue = [n \in Nodes |-> initialValue(n)]
    /\ validation = NoNodes
    /\ rows = [n \in Nodes |-> initialRows(n)]
    /\ validators = [n \in Nodes |-> <<>>]
    /\ ops = 0
    /\ lastCall = NoCall
    /\ fieldType = TextFields

Next ==
    \/ \E value \in Values : Validate(value)
    \/ \E value \in Values : ValidationValidate(value)
    \/ \E r \in 1 .. Len(runs) : Settle(r)

Spec == Init /\ [][Next]_vars

\* The engine with every awaited promise settling in the end: the job queue
\* runs the continuation of a settled promise.
SpecFair == Spec /\ \A r \in 1 .. MaxOps : WF_vars(r \in 1 .. Len(runs) /\ Settle(r))

\* The validators of the form's objects.
required == Validator("required", "return", "throwError")
unique == Validator("unique", "resolve", "rejectError")
available == Validator("available", "rejectError", "resolve")
consistent == Validator("consistent", "return", "throwError")
notEmpty == Validator("notEmpty", "resolve", "resolve")
strict == Validator("strict", "throwError", "throwError")

\* The form of Nodes, constructed and with its validators added.
InitForm ==
    /\ allValidators = <<>>
    /\ validations = <<>>
    /\ runs = <<>>
    /\ calls = <<>>
    /\ rawValue = [n \in Nodes |-> initialValue(n)]
    /\ validation = NoNodes
    /\ rows = [n \in Nodes |-> initialRows(n)]
    /\ validators \in
         {[n \in Nodes |-> CASE n = 1 -> own
                             [] n = 2 -> first
                             [] n = 3 -> <<notEmpty>>
                             [] n = 4 -> <<>>
                             [] OTHER -> second] :
            own \in {<<consistent>>, <<strict>>},
            first \in {<<required>>, <<unique>>}, second \in {<<unique>>, <<available>>}}
    /\ ops = 0
    /\ lastCall = NoCall
    /\ fieldType = TextFields

NextForm ==
    \/ \E n \in {n \in Nodes : Kind(n) = "Field"} : \E value \in Values : FieldSet(n, value)
    \/ \E n \in Nodes : NodeValidate(n)
    \/ \E n \in Nodes : Reset(n)
    \/ \E r \in 1 .. Len(runs) : Settle(r)
    \/ \E c \in 1 .. Len(calls) : Return(c)

SpecForm == InitForm /\ [][NextForm]_vars

\* The form of Nodes, validated while validators are added to it and to its
\* array.
InitAdd ==
    /\ allValidators = <<>>
    /\ validations = <<>>
    /\ runs = <<>>
    /\ calls = <<>>
    /\ rawValue = [n \in Nodes |-> initialValue(n)]
    /\ validation = NoNodes
    /\ rows = [n \in Nodes |-> initialRows(n)]
    /\ validators \in
         {[n \in Nodes |-> CASE n = 1 -> <<consistent, notEmpty>>
                             [] n = 2 -> first
                             [] n = 3 -> <<notEmpty, notEmpty>>
                             [] n = 4 -> <<>>
                             [] OTHER -> <<unique>>] :
            first \in {<<required>>, <<available>>}}
    /\ ops = 0
    /\ lastCall = NoCall
    /\ fieldType = TextFields

NextAdd ==
    \/ \E n \in {1, 3} : FormAddValidators(n, <<strict>>)
    \/ \E n \in {1, 3} : NodeValidate(n)
    \/ \E r \in 1 .. Len(runs) : Settle(r)
    \/ \E c \in 1 .. Len(calls) : Return(c)

SpecAdd == InitAdd /\ [][NextAdd]_vars

\* The errors a caller hands to setError.
GivenErrors ==
    {Text("a"), Error("a", <<0, 1>>), ValidationError("b", FALSE, Undefined, <<0, 2>>), Bare}

\* One field on its own, a text or a number field with up to two validators,
\* and the fields made from it by addValidators.
InitField ==
    /\ allValidators = <<>>
    /\ validations = <<>>
    /\ runs = <<>>
    /\ calls = <<>>
    /\ rawValue = [n \in Nodes \cup FreshFields |-> initialValue(n)]
    /\ validation = [n \in Nodes \cup FreshFields |-> 0]
    /\ rows = [n \in Nodes |-> initialRows(n)]
    /\ validators \in
         {[n \in Nodes \cup FreshFields |-> IF n = 2 THEN list ELSE <<>>] :
            list \in {<<>>, <<required>>, <<unique>>, <<available>>, <<unique, required>>}}
    /\ ops = 0
    /\ lastCall = NoCall
    /\ fieldType \in {[n \in Nodes \cup FreshFields |-> IF n = 2 THEN type ELSE "none"] :
                        type \in {"text", "number"}}

NextField ==
    \/ \E n \in {2} \cup FreshFields : \E value \in Values :
          fieldType[n] # "none" /\ FieldSet(n, value)
    \/ \E e \in GivenErrors : FieldSetError(2, e)
    \/ NodeValidate(2)
    \/ Reset(2)
    \/ \E n \in {2} \cup FreshFields : \E list \in SeqsUpTo({required, unique}, 2) :
          FieldAddValidators(n, list)
    \/ \E r \in 1 .. Len(runs) : Settle(r)
    \/ \E c \in 1 .. Len(calls) : Return(c)

SpecField == InitField /\ [][NextField]_vars

\* ValidationError.from(e), called from outside
From(e) ==
    /\ lastCall' = [op |-> "from", array |-> 0, arg |-> e, result |-> from(e),
                    turn |-> 1 - lastCall.turn]
    /\ UNCHANGED <<validations, runs, calls, rawValue, validation, rows, validators,
                   allValidators, ops, fieldType>>

\* The values handed to ValidationError.from: ValidationErrors, other Errors,
\* strings, undefined, a plain object, an object with no primitive value.
Identities == {<<1, 1>>, <<1, 2>>, <<2, 1>>, <<2, 2>>}
FromInputs ==
    {ValidationError(message, bail, cause, id) :
        message \in {"a", "b"}, bail \in BOOLEAN,
        cause \in {Undefined, Text("a"), Error("a", <<1, 1>>)}, id \in Identities}
    \cup {Error(message, id) : message \in {"a", "b"}, id \in Identities}
    \cup {Text("a"), Text("b"), Undefined, AGGREGATE_ERROR, Bare}

\* ValidationError.from on its own.
InitFrom ==
    /\ allValidators = <<>>
    /\ validations = <<>>
    /\ runs = <<>>
    /\ calls = <<>>
    /\ rawValue = [n \in Nodes |-> initialValue(n)]
    /\ validation = NoNodes
    /\ rows = [n \in Nodes |-> initialRows(n)]
    /\ validators = [n \in Nodes |-> <<>>]
    /\ ops = 0
    /\ lastCall = NoCall
    /\ fieldType = TextFields

NextFrom ==
    \/ \E e \in FromInputs : From(e)
    \/ lastCall.op = "from" /\ lastCall.result.type = "ValidationError" /\ From(lastCall.result)

SpecFrom == InitFrom /\ [][NextFrom]_vars

\* The rows a caller can hand to the array, and the arguments of remove.
RowPool == {4} \cup SpareRows
RemoveArgs == {Index(i) : i \in -1 .. MaxRows} \cup {Ref(n) : n \in RowPool}

\* The array of the form, its rows added and removed.
InitRows ==
    /\ allValidators = <<>>
    /\ validations = <<>>
    /\ runs = <<>>
    /\ calls = <<>>
    /\ rawValue = [n \in Nodes |-> initialValue(n)]
    /\ validation = NoNodes
    /\ rows = [n \in Nodes |-> initialRows(n)]
    /\ validators = [n \in Nodes |-> IF n = 5 THEN <<unique>> ELSE <<>>]
    /\ ops = 0
    /\ lastCall = NoCall
    /\ fieldType = TextFields

NextRows ==
    \/ \E newRows \in SeqsUpTo(RowPool, 2) : ArrayAdd(3, newRows)
    \/ \E row \in RemoveArgs : ArrayRemove(3, row)
    \/ \E value \in Values : FieldSet(5, value)
    \/ \E n \in {1, 3} : Reset(n)
    \/ \E r \in 1 .. Len(runs) : Settle(r)
    \/ \E c \in 1 .. Len(calls) : Return(c)

SpecRows == InitRows /\ [][NextRows]_vars

\* ------------------------------------------------------- claims: the engine
Runs == 1 .. Len(runs)
Range(s) == {s[k] : k \in 1 .. Len(s)}

\* What the validator at position k of run r does with the run's value.
Does(r, k) == Behaviour(runs[r].validators[k], runs[r].value)

\* The value the validator at position k of run r fails with.
ThrownAt(r, k) == Thrown(Does(r, k), runs[r].validators[k].name, r, k)

FailsAt(r, k) == Does(r, k) \in SyncThrows \cup Rejects
SentinelAt(r, k) == Does(r, k) \in {"throwAgg", "rejectAgg"}
BareAt(r, k) == Does(r, k) \in {"throwBare", "rejectBare"}
ErrorAt(r, k) == FailsAt(r, k) /\ ~SentinelAt(r, k) /\ ~BareAt(r, k)
BailsAt(r, k) == ErrorAt(r, k) /\ (ThrownAt(r, k).type = "ValidationError" => ThrownAt(r, k).bail)
AcceptsAt(r, k) == Does(r, k) \in {"return", "resolve"}

\* The errors of the failures of run r at positions 1 .. k, in that order.
RECURSIVE Failures(_, _)
Failures(r, k) ==
    IF k = 0 THEN <<>>
    ELSE Failures(r, k - 1) \o (IF ErrorAt(r, k) THEN <<from(ThrownAt(r, k))>> ELSE <<>>)

\* Run r reaches its end in this step.
Commits(r) == r \in 1 .. Len(runs') /\ runs'[r].pc = "done" /\ (r \in Runs => runs[r].pc # "done")

\* The Validation of run r, as the step leaves it.
Outcome(r) == validations'[runs'[r].target]

\* C1: when the first bailing failure of a run is at position i, no validator
\* after i is invoked, and the run ends invalid with the non-bailing failures
\* before i followed by the failure at i as its errors.
C1Case(r, i) ==
    /\ i \in Range(runs[r].invoked)
    /\ BailsAt(r, i)
    /\ \A j \in 1 .. i - 1 : ~BailsAt(r, j)

C1_BailStopsRun ==
    [][\A r \in 1 .. Len(runs') : \A i \in 1 .. Len(runs'[r].validators) :
          C1Case(r, i)' =>
            /\ \A k \in Range(runs'[r].invoked) : k <= i
            /\ Commits(r) =>
                 /\ Outcome(r).state = "invalid"
                 /\ Outcome(r).errors = Failures(r, i)'
                 /\ Outcome(r).errors[Len(Outcome(r).errors)] = from(ThrownAt(r, i))']_vars

C1_Witness ==
    \E r \in Runs : \E i \in 2 .. Len(runs[r].validators) - 1 :
        /\ C1Case(r, i)
        /\ runs[r].pc = "done"
        /\ Len(runs[r].errors) = i
        /\ validations[runs[r].target].state = "invalid"

\* C2: when a validator at position i fails with the aggregate sentinel, no
\* validator after i is invoked, and the run ends invalid with the errors of
\* the failures before i as its errors, none added for i, even when that list
\* is empty.
C2Case(r, i) == i \in Range(runs[r].invoked) /\ SentinelAt(r, i)

C2_SentinelStopsRun ==
    [][\A r \in 1 .. Len(runs') : \A i \in 1 .. Len(runs'[r].validators) :
          C2Case(r, i)' =>
            /\ \A k \in Range(runs'[r].invoked) : k <= i
            /\ Commits(r) =>
                 /\ Outcome(r).state = "invalid"
                 /\ Outcome(r).errors = Failures(r, i - 1)'
                 /\ \A k \in 1 .. Len(Outcome(r).errors) :
                       Outcome(r).errors[k].type = "ValidationError"]_vars

C2_Witness ==
    \E r \in Runs : \E i \in 1 .. Len(runs[r].validators) - 1 :
        /\ C2Case(r, i)
        /\ runs[r].pc = "done"
        /\ validations[runs[r].target].state = "invalid"
        /\ validations[runs[r].target].errors = <<>>

\* C3: a run all of whose validators accept the value ends valid, with that
\* value and no errors; so does a run with no validators.
C3Case(r) == \A k \in 1 .. Len(runs[r].validators) : AcceptsAt(r, k)

C3_AllAcceptIsValid ==
    [][\A r \in 1 .. Len(runs') :
          C3Case(r)' /\ Commits(r) =>
            /\ Outcome(r).state = "valid"
            /\ Outcome(r).value = runs'[r].value
            /\ Outcome(r).errors = <<>>
            /\ Len(runs'[r].invoked) = Len(runs'[r].validators)]_vars

C3_Witness ==
    \E r \in Runs :
        /\ C3Case(r)
        /\ Len(runs[r].validators) = MaxValidators
        /\ \E k \in 1 .. Len(runs[r].validators) : Does(r, k) = "resolve"
        /\ runs[r].pc = "done"
        /\ validations[runs[r].target].value = runs[r].value

C3_WitnessEmpty ==
    \E r \in Runs :
        /\ runs[r].validators = <<>>
        /\ validations[runs[r].target].state = "valid"

\* C4: a failure with bail = false does not end the run: the next validator is
\* invoked, and when the run ends its errors with bail = false are the
\* non-bailing failures of the invoked validators, in registration order.
NonBailingAt(r, k) == ErrorAt(r, k) /\ ~BailsAt(r, k)

NonBailing(list) == SelectSeq(list, LAMBDA e : ~e.bail)

Last(s) == s[Len(s)]

C4Case(r, k) == k \in Range(runs[r].invoked) /\ NonBailingAt(r, k)

C4_NoBailContinues ==
    [][\A r \in 1 .. Len(runs') : \A k \in 1 .. Len(runs'[r].validators) :
          C4Case(r, k)' /\ Commits(r) =>
            /\ k < Len(runs'[r].validators) => k + 1 \in Range(runs'[r].invoked)
            /\ NonBailing(Outcome(r).errors)
                 = NonBailing(Failures(r, Last(runs[r].invoked)))']_vars

C4_Witness ==
    \E r \in Runs : \E j, k \in 1 .. Len(runs[r].validators) :
        /\ j < k
        /\ C4Case(r, j)
        /\ C4Case(r, k)
        /\ runs[r].pc = "done"
        /\ Len(validations[runs[r].target].errors) >= 2

\* C5: the validators of a run are invoked in registration order, one at a
\* time: the validator after position k is invoked only once the one at k has
\* returned or, when it returned a promise, once that promise has settled.
ReturnsPromise(r, k) ==
    \/ Does(r, k) \in Resolves \cup Rejects
    \/ runs[r].validators[k].name = "validateAll"

C5_InOrderOneAtATime ==
    \A r \in Runs :
        /\ \A j \in 1 .. Len(runs[r].invoked) : runs[r].invoked[j] = j
        /\ \A j \in 2 .. Len(runs[r].invoked) :
              ReturnsPromise(r, j - 1) => j - 1 \in Range(runs[r].settled)
        /\ runs[r].pc = "await" => Last(runs[r].invoked) = runs[r].i

C5_Witness ==
    \E r \in Runs :
        /\ runs[r].engine = "validate"
        /\ Len(runs[r].validators) = MaxValidators
        /\ runs[r].pc = "await"
        /\ runs[r].i = 2
        /\ runs[r].settled = <<1>>

\* ------------------------------------------------- claims: overlapping runs
Validations == 1 .. Len(validations)
Calls == 1 .. Len(calls)
Max(S) == CHOOSE x \in S : \A y \in S : y <= x

\* What run r leaves in its Validation when it ends.
Result(r) ==
    IF runs[r].result = AGGREGATE_ERROR \/ Len(runs[r].errors) > 0
    THEN [state |-> "invalid", errors |-> runs[r].errors, value |-> Undefined]
    ELSE [state |-> "valid", errors |-> <<>>, value |-> runs[r].value]

Shows(vid, result) ==
    /\ validations[vid].state = result.state
    /\ validations[vid].errors = result.errors
    /\ validations[vid].value = result.value

\* The runs started on Validation vid, and on the Validations of node n.
RunsOn(vid) == {r \in Runs : runs[r].target = vid}
RunsOf(n) == {r \in Runs : runs[r].node = n}

\* C8: once every run started on a Validation by its validate(value) has
\* ended, the Validation shows the outcome of the run started last, whichever
\* run ended last.
C8_LatestValidateWins ==
    \A vid \in Validations :
        (RunsOn(vid) # {} /\ \A r \in RunsOn(vid) : runs[r].pc = "done")
            => Shows(vid, Result(Max(RunsOn(vid))))

\* C10: a field shows only the run of its last set(): its Validation is the
\* target of that run alone, that run validates the field's raw value, and
\* once the field's runs have ended its state, errors and value are that
\* run's outcome.
Fields == {n \in Nodes : Kind(n) = "Field"}

C10_FieldShowsLastSet ==
    \A n \in Fields :
        validation[n] # 0 =>
            LET last == Max(RunsOf(n))
            IN /\ RunsOn(validation[n]) = {last}
               /\ runs[last].value = rawValue[n]
               /\ \A k \in 1 .. Len(errors(n)) : errors(n)[k].id[1] = last
               /\ (\A r \in RunsOf(n) : runs[r].pc = "done")
                     => Shows(validation[n], Result(last))

C10_Witness ==
    \E n \in Fields : \E old, new \in RunsOf(n) :
        /\ old < new
        /\ new = Max(RunsOf(n))
        /\ runs[old].value # runs[new].value
        /\ runs[old].pc = "done"
        /\ runs[new].pc = "done"
        /\ runs[old].overtaken
        /\ Result(old).state = "invalid"
        /\ validation[n] # 0
        /\ validations[validation[n]].state = "valid"
        /\ validations[validation[n]].value = rawValue[n]

\* C9: the promise of a validate() call resolves to a Validation that is
\* valid or invalid.
C9_ValidateResolvesFinished ==
    \A c \in Calls : calls[c].done => calls[c].state \in {"valid", "invalid"}

\* ------------------------------------------------ claims: forms and children
FormRuns == {r \in Runs : runs[r].node # 0 /\ Kind(runs[r].node) # "Field"}

\* The step invokes one of the own validators of the form of run r: the
\* validators after validateAll.
InvokesOwn(r) ==
    \E k \in Range(runs'[r].invoked) \ Range(runs[r].invoked) : k >= 2

\* The validation run r started for the child of call c, and the child's
\* validation now.
Started(c) == runs[calls[c].run].target
Current(c) == validation[calls[c].node]

IsInvalid(vid) == vid # 0 /\ validations[vid].state = "invalid"

\* C6: when a run of Form.validate() or FormArray.validate() invokes one of
\* the form's own validators, every child validation the run started has
\* ended and no child is invalid, neither in the validation the run started
\* for it nor in the validation it has now.
C6_OwnValidatorsAfterValidChildren ==
    [][\A r \in FormRuns : InvokesOwn(r) =>
          \A c \in Awaited(State, r) :
              /\ runs[calls[c].run].pc = "done"
              /\ validations[Started(c)].state # "pending"
              /\ ~IsInvalid(Started(c))
              /\ ~IsInvalid(Current(c))]_vars

RECURSIVE ErrorsOfInvalid(_, _)

\* The errors of the invalid objects among those listed, from the k-th on.
ErrorsOfInvalid(list, k) ==
    IF k > Len(list) THEN <<>>
    ELSE (IF IsInvalid(validation[list[k]]) THEN errors(list[k]) ELSE <<>>)
             \o ErrorsOfInvalid(list, k + 1)

\* The step resolves the promise of call c, made by validate() of a Form whose
\* validation is still the one the call started.
Completes(c) ==
    /\ Kind(calls[c].node) = "Form"
    /\ ~calls[c].done
    /\ calls'[c].done
    /\ validation'[calls[c].node] = runs[calls[c].run].target

HasInvalidField(n) ==
    \E k \in 1 .. Len(FieldsOf(n)) :
        Kind(FieldsOf(n)[k]) = "Field" /\ IsInvalid(validation[FieldsOf(n)[k]])

\* C7: when the promise of Form.validate() resolves and a child field of the
\* form is invalid, the form's validation is invalid, formErrors is empty and
\* form.errors is the errors of the invalid children.
C7_InvalidChildMakesFormInvalid ==
    [][\A c \in Calls : Completes(c) /\ HasInvalidField(calls[c].node)' =>
          /\ IsInvalid(validation[calls[c].node])'
          /\ formErrors(calls[c].node)' = <<>>
          /\ errors(calls[c].node)'
               = ErrorsOfInvalid(FieldsOf(calls[c].node), 1)']_vars

\* ------------------------------------------- claims: the promise of a run
\* The promise of run r: validation.finished for validate(), the promise
\* returned by validation.validate(value) for createValidation.
Resolved(r) == runs[r].pc = "done"
Rejected(r) == runs[r].pc = "rejected"

\* C11: validation.finished never rejects, and once it has resolved the
\* Validation is valid or invalid.
C11_FinishedResolvesAfterCommit ==
    \A r \in Runs :
        runs[r].engine = "validate" =>
            /\ ~Rejected(r)
            /\ Resolved(r) => validations[runs[r].target].state \in {"valid", "invalid"}

\* C12: while the run started last on a Validation has a validator unsettled,
\* the Validation is pending, with no errors and no value.
C12_PendingWhileValidating ==
    \A vid \in Validations :
        (RunsOn(vid) # {} /\ runs[Max(RunsOn(vid))].pc = "await") =>
            Shows(vid, [state |-> "pending", errors |-> <<>>, value |-> Undefined])

\* The run that left Validation vid invalid was ended by the sentinel.
EndedBySentinel(vid) ==
    \E r \in RunsOn(vid) : runs[r].pc = "done" /\ runs[r].result = AGGREGATE_ERROR

\* C13: a pending Validation has no errors, a valid one has no errors, and an
\* invalid one has errors or its run was ended by the aggregate sentinel.
C13_ErrorsMatchState ==
    \A vid \in Validations :
        /\ validations[vid].state \in {"pending", "valid", "invalid"}
        /\ validations[vid].state = "pending" => validations[vid].errors = <<>>
        /\ validations[vid].state = "valid" => validations[vid].errors = <<>>
        /\ validations[vid].state = "invalid" =>
              Len(validations[vid].errors) > 0 \/ EndedBySentinel(vid)

C13_Witness ==
    \E vid \in Validations :
        /\ validations[vid].state = "invalid"
        /\ validations[vid].errors = <<>>
        /\ EndedBySentinel(vid)
        /\ \E r \in RunsOn(vid) : Len(runs[r].validators) > 1

\* C14: no failure of a validator leaves the engine: the promise of a run
\* never rejects, and when the run ends, a failure other than the sentinel is
\* one of its errors.
C14_FailuresStayInside ==
    \A r \in Runs : \A k \in Range(runs[r].invoked) :
        (FailsAt(r, k) /\ ~SentinelAt(r, k)) =>
            /\ ~Rejected(r)
            /\ Resolved(r) => \E j \in 1 .. Len(runs[r].errors) :
                                 runs[r].errors[j].cause \in {ThrownAt(r, k), Undefined}

\* ---------------------------------------------- claims: a form's children
\* The runs the step starts.
Starts == Len(runs) + 1 .. Len(runs')

IsForm(n) == n # 0 /\ Kind(n) # "Field"

\* The step starts, for child n, a validate() call made by run r.
StartsChild(r, n) ==
    \E c \in Len(calls) + 1 .. Len(calls') :
        /\ calls'[c].parent = r
        /\ calls'[c].node = n
        /\ calls'[c].run \in Starts
        /\ runs'[calls'[c].run].target = validation'[n]

\* The step resumes validateAll of run r after its Promise.all.
Decides(r) == r \in Runs /\ runs[r].settled = <<>> /\ runs'[r].settled # <<>>

\* C15: validate() of a Form or FormArray starts validate() on every child
\* before it returns and leaves the form's validation pending; validateAll
\* decides on the sentinel only when every child run it started has ended.
C15_AllChildrenValidated ==
    [][/\ \A r \in Starts : IsForm(runs'[r].node) =>
             /\ validations'[runs'[r].target].state = "pending"
             /\ validation'[runs'[r].node] = runs'[r].target
             /\ \A k \in 1 .. Len(Children(State, runs'[r].node)) :
                   StartsChild(r, Children(State, runs'[r].node)[k])
       /\ \A r \in FormRuns : Decides(r) =>
             \A c \in Awaited(State, r) :
                 calls[c].done /\ runs[calls[c].run].pc = "done"]_vars

\* A form's run was ended by the sentinel, with one child invalid and another
\* valid.
C15_Witness ==
    \E r \in FormRuns : \E c, d \in Awaited(State, r) :
        /\ runs[r].pc = "done"
        /\ runs[r].result = AGGREGATE_ERROR
        /\ calls[c].state = "invalid"
        /\ calls[d].state = "valid"
        /\ c < d
        /\ runs[calls[c].run].pc = "done"
        /\ runs[calls[d].run].pc = "done"

RECURSIVE Accepted(_, _)

\* Every field value of the snapshot `value` of node n is accepted by all the
\* validators of its field.
Accepted(n, value) ==
    IF Kind(n) = "Field"
    THEN \A k \in 1 .. Len(validators[n]) :
            Behaviour(validators[n][k], value) \in {"return", "resolve"}
    ELSE \A k \in 1 .. Len(value.items) : Accepted(Children(State, n)[k], value.items[k])

\* C16: when an own validator of a Form or FormArray is invoked, every field
\* value of the snapshot it is given is accepted by the validators of its
\* field.
C16_OwnValidatorsSeeValidValues ==
    [][\A r \in FormRuns : InvokesOwn(r) => Accepted(runs[r].node, runs[r].value)]_vars

\* ------------------------------------------------- claims: a form's errors
Forms == {n \in Nodes : Kind(n) = "Form"}

ChildHasError(n) == \E k \in 1 .. Len(FieldsOf(n)) : Len(errors(FieldsOf(n)[k])) > 0

RECURSIVE Concat(_)
Concat(lists) == IF lists = <<>> THEN <<>> ELSE Head(lists) \o Concat(Tail(lists))

Arrays == {n \in Nodes : Kind(n) = "FormArray"}

\* Field f is a field of a row of FormArray a.
InRowOf(f, a) ==
    \E k \in 1 .. Len(rows[a]) : \E j \in 1 .. Len(FieldsOf(rows[a][k])) :
        FieldsOf(rows[a][k])[j] = f

\* Form n holds FormArray a, and no child declared before a has an error.
HoldsFirstInError(n, a) ==
    \E k \in 1 .. Len(FieldsOf(n)) :
        /\ FieldsOf(n)[k] = a
        /\ \A j \in 1 .. k - 1 : errors(FieldsOf(n)[j]) = <<>>

FirstErrorIs(n, e) == Len(errors(n)) > 0 /\ errors(n)[1] = e

\* C18: when a field of a row of a FormArray has an error, the array's first
\* error is the field's first error, and so is the first error of a Form that
\* holds the array and has no earlier child in error.
C18_ArrayErrorIsRowFieldError ==
    \A a \in Arrays : \A f \in Fields :
        (InRowOf(f, a) /\ Len(errors(f)) > 0) =>
            /\ FirstErrorIs(a, errors(f)[1])
            /\ \A n \in Forms : HoldsFirstInError(n, a) => FirstErrorIs(n, errors(f)[1])

\* ------------------------------------------------------ claims: snapshots
RECURSIVE Contains(_, _), ValueIn(_, _, _)

\* Object f is n or lies under n.
Contains(n, f) ==
    n = f \/ \E k \in 1 .. Len(Children(State, n)) : Contains(Children(State, n)[k], f)

\* The entry for f in the snapshot `value` of n.
ValueIn(n, f, value) ==
    IF n = f THEN value
    ELSE LET k == CHOOSE k \in 1 .. Len(Children(State, n)) :
                      Contains(Children(State, n)[k], f)
         IN ValueIn(Children(State, n)[k], f, value.items[k])

\* C19: the snapshot of a Form or FormArray holds, for every field under it,
\* the value last given to the field, whatever the state of the field's
\* validation.
C19_SnapshotIsRaw ==
    \A n \in Nodes \ Fields : \A f \in Fields :
        Contains(n, f) =>
            /\ ValueIn(n, f, snapshot(State, n)) = rawValue[f]
            /\ ValueIn(n, f, snapshot(State, n)) \in Values

\* Both fields were set to a value other than the initial one; one is
\* invalid, the validation of the other is pending.
C19_Witness ==
    \E f, g \in Fields :
        /\ validation[f] # 0
        /\ validation[g] # 0
        /\ validations[validation[f]].state = "invalid"
        /\ validations[validation[g]].state = "pending"
        /\ rawValue[f] # initialValue(f)
        /\ rawValue[g] # initialValue(g)
        /\ ValueIn(1, f, snapshot(State, 1)) = rawValue[f]
        /\ ValueIn(1, g, snapshot(State, 1)) = rawValue[g]

\* ------------------------------------------------------- claims: the rows
\* The last step was a.remove(x) with x a row of a, or an index into its rows.
RemovedPresent(a, x) ==
    /\ lastCall'.turn # lastCall.turn
    /\ lastCall'.op = "remove"
    /\ lastCall'.array = a
    /\ lastCall'.arg = x
    /\ IF x.type = "number"
       THEN 0 <= x.value /\ x.value < Len(rows[a])
       ELSE \E k \in 1 .. Len(rows[a]) : rows[a][k] = x.ref

\* Position (from 1) of the row that a.remove(x) is to take out.
Position(a, x) ==
    IF x.type = "number" THEN x.value + 1
    ELSE CHOOSE k \in 1 .. Len(rows[a]) :
             rows[a][k] = x.ref /\ \A j \in 1 .. k - 1 : rows[a][j] # x.ref

\* C20: remove(x) with x a row of the array or an index into it takes out
\* exactly that row: one row fewer, the others unchanged and in the same
\* order, and the call returns the array.
C20_RemoveTakesOneRow ==
    [][\A a \in {3} : \A x \in RemoveArgs :
         RemovedPresent(a, x) =>
            LET p == Position(a, x)
            IN /\ Len(rows'[a]) = Len(rows[a]) - 1
               /\ \A k \in 1 .. p - 1 : rows'[a][k] = rows[a][k]
               /\ \A k \in p .. Len(rows'[a]) : rows'[a][k] = rows[a][k + 1]
               /\ lastCall'.result = a]_vars

\* A row has just been removed by reference from three rows; neither of the
\* two rows left is that row.
C20_Witness ==
    /\ lastCall.op = "remove"
    /\ lastCall.arg.type = "object"
    /\ Len(rows[3]) = 2
    /\ \A k \in 1 .. 2 : rows[3][k] # lastCall.arg.ref

\* The last step was a.remove(x) with x a row that is not among the rows of a.
RemovedAbsent(a, x) ==
    /\ lastCall'.turn # lastCall.turn
    /\ lastCall'.op = "remove"
    /\ lastCall'.array = a
    /\ lastCall'.arg = x
    /\ x.type = "object"
    /\ \A k \in 1 .. Len(rows[a]) : rows[a][k] # x.ref

\* C21: remove(row) with a row that is not among the rows of the array
\* leaves the rows as they were.
C21_RemoveAbsentIsNoop ==
    [][\A a \in {3} : \A x \in RemoveArgs :
         RemovedAbsent(a, x) => rows'[a] = rows[a]]_vars

\* ------------------------------------------------------ claims: reset
\* The step is a reset() called from outside: a call is counted and no
\* validate() call starts.
ResetStep == ops' = ops + 1 /\ Len(calls') = Len(calls)

\* Every field under n has its initial value and no validation, and no form
\* or array under n (n included) has a validation, in the next state.
RECURSIVE IsResetAfter(_)
IsResetAfter(n) ==
    /\ validation'[n] = 0
    /\ IF Kind(n) = "Field"
       THEN rawValue'[n] = initialValue(n)
       ELSE LET list == IF Kind(n) = "FormArray" THEN rows'[n] ELSE FieldsOf(n)
            IN \A k \in 1 .. Len(list) : IsResetAfter(list[k])

RECURSIVE InitialSnapshot(_)
InitialSnapshot(n) ==
    IF Kind(n) = "Field" THEN initialValue(n)
    ELSE LET list == IF Kind(n) = "FormArray" THEN initialRows(n) ELSE FieldsOf(n)
         IN [type |-> "object", items |-> [k \in 1 .. Len(list) |-> InitialSnapshot(list[k])]]

Observable(n) ==
    [rawValue |-> rawValue[n], value |-> fieldValue(n),
     validation |-> IF validation[n] = 0 THEN Undefined ELSE validations[validation[n]],
     errors |-> validationErrors(n)]

\* What a caller can read from field n after reset() on it.
AfterReset(n) ==
    [rawValue |-> initialValue(n), value |-> Undefined, validation |-> Undefined,
     errors |-> <<>>]

C25_SetStartsOneRun ==
    [][\A n \in Fields : \A v \in Values :
         FieldSet(n, v) =>
            /\ rawValue'[n] = v
            /\ \A f \in Fields \ {n} : rawValue'[f] = rawValue[f] /\ validation'[f] = validation[f]
            /\ Len(runs') = Len(runs) + 1
            /\ Len(validations') = Len(validations) + 1
            /\ Len(calls') = Len(calls) + 1
            /\ validation'[n] = Len(validations')
            /\ runs'[Len(runs')].target = validation'[n]
            /\ runs'[Len(runs')].value = v
            /\ calls'[Len(calls')].node = n
            /\ calls'[Len(calls')].run = Len(runs')]_vars

\* A field was set twice, to two different values; the run of the second
\* value is the one on the field's Validation.
C25_Witness ==
    \E n \in Fields :
        /\ Len(runs) = 2
        /\ runs[1].node = n /\ runs[2].node = n
        /\ runs[1].value # runs[2].value
        /\ rawValue[n] = runs[2].value
        /\ rawValue[n] # initialValue(n)
        /\ validation[n] = runs[2].target
        /\ runs[1].target # runs[2].target

AddedValidators == lastCall'.turn # lastCall.turn /\ lastCall'.op = "addValidators"

C29_FromIsTotal ==
    lastCall.op = "from" =>
        LET e == lastCall.arg
            result == lastCall.result
        IN /\ result.type = "ValidationError"
           /\ e.type = "ValidationError" => result = e
           /\ e.type = "Error" =>
                 result.message = e.message /\ result.cause = e /\ result.bail
           /\ e.type \notin {"ValidationError", "Error"} =>
                 Text(result.message) = String(e) /\ result.cause = e /\ result.bail

\* ------------------------------------------- claims: the returned sentinel
\* The validator at position i of run r was invoked and returns, or resolves
\* with, the aggregate sentinel.
C30Case(r, i) == i \in Range(runs[r].invoked) /\ Does(r, i) \in {"returnAgg", "resolveAgg"}

\* C30: when a validator at position i returns or resolves with the aggregate
\* sentinel, no validator after i is invoked, and the run ends invalid with
\* the errors of the failures before i and none added for i.
C30_ReturnedSentinelStopsRun ==
    [][\A r \in 1 .. Len(runs') : \A i \in 1 .. Len(runs'[r].validators) :
          C30Case(r, i)' =>
            /\ \A k \in Range(runs'[r].invoked) : k <= i
            /\ Commits(r) =>
                 /\ Outcome(r).state = "invalid"
                 /\ Outcome(r).errors = Failures(r, i - 1)']_vars

\* C31: no errors list holds the aggregate sentinel or a ValidationError made
\* from it: not the errors of any Validation, and not the errors, formErrors or
\* fieldErrors of any Field, Form or FormArray.
FromSentinel(e) == e = AGGREGATE_ERROR \/ (e.type = "ValidationError" /\ e.cause = AGGREGATE_ERROR)

NoRepeat(list) == \A j, k \in 1 .. Len(list) : j # k => list[j] # list[k]

C32_OnceWithTheCandidate ==
    [][\A r \in 1 .. Len(runs') :
          /\ NoRepeat(runs'[r].invoked)
          /\ Len(runs'[r].received) = Len(runs'[r].invoked)
          /\ \A k \in 1 .. Len(runs'[r].received) : runs'[r].received[k] = runs'[r].value
          /\ r \in Runs => runs'[r].value = runs[r].value
          /\ \A n \in DOMAIN rawValue :
                r \in Starts /\ runs'[r].node = n => runs'[r].value = snapshot(State, n)']_vars

\* A run of a field that was started with one value, was overtaken by a run
\* started by set() with another value, and then invoked its second validator.
C32_Witness ==
    \E r \in Runs :
        /\ runs[r].node # 0
        /\ runs[r].overtaken
        /\ runs[r].value # rawValue[runs[r].node]
        /\ runs[r].invoked = <<1, 2>>
        /\ runs[r].received = <<runs[r].value, runs[r].value>>

\* C33 as stated: a form that has errors of its own has no child with an error.
C33_FormErrorsExcludeFieldErrors ==
    \A n \in Forms : Len(formErrors(n)) > 0 => Len(fieldErrors(n)) = 0

\* Every child of form n still has the Validation that the validate() call
\* of the form's current Validation started for it: no child has been set,
\* validated or reset since.
ChildrenAsValidated(n) ==
    \E r \in RunsOf(n) :
        /\ runs[r].target = validation[n]
        /\ \A k \in 1 .. Len(FieldsOf(n)) :
              \E c \in Awaited(State, r) :
                  /\ calls[c].node = FieldsOf(n)[k]
                  /\ validation[FieldsOf(n)[k]] = Started(c)

\* C33 as amended: a form that has errors of its own, and whose children all
\* still have the Validation that the form's validate() started for them, has
\* no child with an error.
C33_FreshFormErrorsExcludeFieldErrors ==
    \A n \in Forms :
        Len(formErrors(n)) > 0 /\ ChildrenAsValidated(n) => Len(fieldErrors(n)) = 0

\* The form has an error of its own, next to children as it validated them.
C33_Witness ==
    /\ Len(formErrors(1)) > 0
    /\ ChildrenAsValidated(1)
    /\ validation[2] # 0 /\ validations[validation[2]].state = "valid"
    /\ validation[5] # 0 /\ validations[validation[5]].state = "valid"
    /\ errors(1) = formErrors(1)

\* C34: a run whose validators all complete synchronously has reached its end
\* when the call that starts it returns, so its Validation is not pending
\* then; a run that comes to a validator returning an awaitable is pending
\* when that call returns, and has invoked the validators up to that one.
CompletesSync(r, k) == Does(r, k) \in SyncReturns \cup SyncThrows
PassesOn(r, k) == ~BailsAt(r, k) /\ ~SentinelAt(r, k) /\ ~BareAt(r, k)
FirstAwaitable(r, k) ==
    /\ ~CompletesSync(r, k)
    /\ \A j \in 1 .. k - 1 : CompletesSync(r, j) /\ PassesOn(r, j)

C34_SyncRunEndsBeforeReturn ==
    [][\A r \in Starts :
          /\ (\A k \in 1 .. Len(runs'[r].validators) : CompletesSync(r, k)')
                => Outcome(r).state # "pending"
          /\ \A k \in 1 .. Len(runs'[r].validators) :
                FirstAwaitable(r, k)' =>
                  /\ Outcome(r).state = "pending"
                  /\ runs'[r].invoked = [j \in 1 .. k |-> j]]_vars

\* C35: when every promise a run awaits settles, the run reaches its end and
\* its Validation leaves the pending state; and while the promise a run awaits
\* has not settled, the run stays where it is and invokes no further validator.
Awaiting(r) == r \in Runs /\ runs[r].pc = "await"
Ended(r) == r \in Runs /\ runs[r].pc = "done" /\ validations[runs[r].target].state # "pending"

C35_RunLeavesPending ==
    /\ \A r \in 1 .. MaxOps : [](r \in Runs => <>Ended(r))
    /\ [][\A r \in Runs :
             Awaiting(r) /\ runs'[r].settled = runs[r].settled =>
               Awaiting(r)' /\ runs'[r].invoked = runs[r].invoked]_vars

\* C36: a Validation made by validate(value, validators) that is valid or
\* invalid keeps its state, errors and value in every later step; its only
\* change of state is the one from pending.
MadeByValidate(vid) == \E r \in Runs : runs[r].target = vid /\ runs[r].engine = "validate"

C36_ValidationSettlesOnce ==
    [][\A vid \in Validations :
          MadeByValidate(vid) /\ validations[vid].state # "pending" =>
            validations'[vid] = validations[vid]]_vars

\* A Validation of validate() that ended invalid with two errors before the
\* next call was made, and that of the next call, ended with one error.
C36_Witness ==
    \E r \in Runs : \E q \in Runs :
        /\ r < q
        /\ runs[r].engine = "validate" /\ runs[q].engine = "validate"
        /\ runs[r].pc = "done" /\ runs[q].pc = "done"
        /\ ~runs[q].overtaken /\ ~runs[r].overtaken
        /\ validations[runs[r].target].state = "invalid"
        /\ Len(validations[runs[r].target].errors) = 2
        /\ validations[runs[q].target].state = "invalid"
        /\ Len(validations[runs[q].target].errors) = 1

\* C37: reset() of a Form or FormArray leaves it, and every object in it,
\* with no validation, and leaves it with no errors; and as long as no call
\* is made from outside, no step of a run or a call in flight gives any of
\* them a validation, or the Form or FormArray an error, again.
Aggregates == Forms \cup Arrays

RECURSIVE Clear(_)
Clear(n) ==
    /\ validation[n] = 0
    /\ \A k \in 1 .. Len(Children(State, n)) : Clear(Children(State, n)[k])

C37_ResetDetachesRun ==
    [][\A n \in Aggregates :
          /\ Reset(n) => Clear(n)' /\ errors(n)' = <<>>
          /\ ops' = ops /\ Clear(n) => Clear(n)' /\ errors(n)' = <<>>]_vars

\* The array has been reset while its run, past validateAll, awaits the
\* array's own validator.
C37_Witness ==
    \E r \in RunsOf(3) :
        /\ Clear(3)
        /\ runs[r].pc = "await"
        /\ runs[r].invoked = <<1, 2>>
        /\ validations[runs[r].target].state = "pending"

\* C38: the list of validators a run of a Form or FormArray walks is the
\* synthetic validator followed by the validators the object has when
\* validate() is called; the run keeps that list and invokes nothing outside
\* it, whatever is added while it is pending, and a validate() called after
\* an addValidators() has the added validators last in its list.
C38_ListFixedAtValidate ==
    [][\A r \in 1 .. Len(runs') : \A n \in Aggregates :
          runs'[r].node = n =>
            /\ r \in Runs => runs'[r].validators = runs[r].validators
            /\ r \in Starts => runs'[r].validators = <<validateAllValidator>> \o validators[n]
            /\ Range(runs'[r].invoked) \subseteq 1 .. Len(runs'[r].validators)]_vars

\* A run of the form, still pending at the last validator of its list, to
\* which a validator has been added since it started; and a later run of the
\* form that has invoked its list, the added validator last.
C38_Witness ==
    \E r \in RunsOf(1) : \E q \in RunsOf(1) :
        /\ r < q
        /\ runs[r].pc = "await"
        /\ Len(runs[r].validators) = 3
        /\ Len(validators[1]) = 3
        /\ runs[r].invoked = <<1, 2, 3>>
        /\ runs[q].pc = "done"
        /\ runs[q].validators = <<validateAllValidator>> \o validators[1]
        /\ runs[q].invoked = <<1, 2, 3, 4>>
        /\ runs[q].validators[4] = strict

====
